---- MODULE Spec2Model ----
(***************************************************************************)
(* A model of goscraper (src/goscraper.go): Scrape, getDocument,           *)
(* toFragmentUrl and parseDocument.                                        *)
(*                                                                         *)
(* Strings are sequences of byte values (Go strings are byte strings).     *)
(* The net/url functions the scraper calls are modelled by what they do    *)
(* on such strings; the HTTP transport, the charset reader and the html    *)
(* tokenizer are the environment: each answer they can give is a           *)
(* nondeterministic choice of the action that calls them.                  *)
(*                                                                         *)
(* A value that a function of the source computes once and reads several   *)
(* times is passed on as a parameter of the operator that models the rest  *)
(* of the function.                                                        *)
(***************************************************************************)
EXTENDS Integers, Sequences, FiniteSets, TLC

VARIABLES pc, scraper, doc, scan, hist

vars == <<pc, scraper, doc, scan, hist>>

(***************************************************************************)
(* Strings                                                                 *)
(***************************************************************************)
\* F(e), with e evaluated once: a local `x := e` of the source
With(e, F(_)) == CHOOSE r \in {F(x) : x \in {e}} : TRUE

\* F(d, e), with d and e evaluated once
With2(d, e, F(_, _)) == CHOOSE r \in {F(x, y) : x \in {d}, y \in {e}} : TRUE

MinOf(S) == CHOOSE m \in S : \A k \in S : m <= k

MaxOf(S) == CHOOSE m \in S : \A k \in S : m >= k

MinOr0(S) == With(S, LAMBDA T : IF T = {} THEN 0 ELSE MinOf(T))

HasPrefixAt(s, sub, i) ==
    /\ i >= 1
    /\ i + Len(sub) - 1 <= Len(s)
    /\ SubSeq(s, i, i + Len(sub) - 1) = sub

\* strings.Index, 1-based; 0 when sub does not occur
Index(s, sub) ==
    With2(s, sub, LAMBDA t, u : MinOr0({i \in 1..(Len(t) + 1) : HasPrefixAt(t, u, i)}))

\* strings.Contains
Contains(s, sub) == Index(s, sub) # 0

\* strings.HasPrefix
HasPrefix(s, sub) == HasPrefixAt(s, sub, 1)

\* s[i:], 1-based
From(s, i) == SubSeq(s, i, Len(s))

\* s cut at index i of a separator of length n: [before, after, found]
CutAt(s, i, n) ==
    IF i = 0
    THEN [before |-> s, after |-> <<>>, found |-> FALSE]
    ELSE [before |-> SubSeq(s, 1, i - 1), after |-> From(s, i + n), found |-> TRUE]

\* strings.Cut(s, sep)
Cut(s, sep) == With(s, LAMBDA t : With(Index(t, sep), LAMBDA i : CutAt(t, i, Len(sep))))

\* strings.Count(s, c) for a byte c
CountByte(s, c) == With(s, LAMBDA t : Cardinality({i \in 1..Len(t) : t[i] = c}))

IsLower(c) == c >= 97 /\ c <= 122

IsUpper(c) == c >= 65 /\ c <= 90

IsDigit(c) == c >= 48 /\ c <= 57

IsAlnum(c) == IsLower(c) \/ IsUpper(c) \/ IsDigit(c)

\* url.ishex
IsHex(c) == IsDigit(c) \/ (c >= 97 /\ c <= 102) \/ (c >= 65 /\ c <= 70)

\* url.unhex
UnHex(c) ==
    IF IsDigit(c) THEN c - 48
    ELSE IF c >= 97 /\ c <= 102 THEN c - 97 + 10
    ELSE IF c >= 65 /\ c <= 70 THEN c - 65 + 10
    ELSE 0

\* "0123456789ABCDEF"[n]
UpperHexDigit(n) == IF n < 10 THEN 48 + n ELSE 65 + (n - 10)

\* strings.ToLower, on ASCII
ToLower(s) ==
    With(s, LAMBDA t : [i \in 1..Len(t) |-> IF IsUpper(t[i]) THEN t[i] + 32 ELSE t[i]])

\* unicode.IsSpace, on bytes below 128
IsSpace(c) == c \in {9, 10, 11, 12, 13, 32}

\* s[lo..hi] for the set I of the indices to keep, empty when I is
Span(s, I) == IF I = {} THEN <<>> ELSE SubSeq(s, MinOf(I), MaxOf(I))

\* strings.TrimSpace
TrimSpace(s) ==
    With(s, LAMBDA t : With({i \in 1..Len(t) : ~IsSpace(t[i])}, LAMBDA I : Span(t, I)))

\* func cleanStr (lines 380-382)
cleanStr(str) == ToLower(TrimSpace(str))

RECURSIVE Flatten(_)
\* the concatenation of the strings of ss
Flatten(ss) ==
    With(ss, LAMBDA tt : IF tt = <<>> THEN <<>> ELSE Head(tt) \o Flatten(Tail(tt)))

\* fmt.Sprintf("%s://%s%s", scheme, host, path)
Sprintf3(scheme, host, path) == scheme \o <<58, 47, 47>> \o host \o path

(***************************************************************************)
(* net/url: escaping                                                       *)
(***************************************************************************)
HostSubDelims == {33, 36, 38, 39, 40, 41, 42, 43, 44, 59, 61, 58, 91, 93, 60, 62, 34}

Reserved == {36, 38, 43, 44, 47, 58, 59, 61, 63, 64}

\* url.shouldEscape(c, mode), mode one of "path", "host", "query", "fragment"
shouldEscape(c, mode) ==
    IF IsAlnum(c) THEN FALSE
    ELSE IF mode = "host" /\ c \in HostSubDelims THEN FALSE
    ELSE IF c \in {45, 95, 46, 126} THEN FALSE
    ELSE IF c \in Reserved /\ mode = "path" THEN c = 63
    ELSE IF c \in Reserved /\ mode = "query" THEN TRUE
    ELSE IF c \in Reserved /\ mode = "fragment" THEN FALSE
    ELSE IF mode = "fragment" /\ c \in {33, 40, 41, 42} THEN FALSE
    ELSE TRUE

\* the well-formedness pass of url.unescape
unescapeOK(str, mode) ==
    With(str, LAMBDA s :
        \A i \in 1..Len(s) :
            IF s[i] = 37
            THEN /\ i + 2 <= Len(s)
                 /\ IsHex(s[i + 1])
                 /\ IsHex(s[i + 2])
                 /\ ~(mode = "host" /\ UnHex(s[i + 1]) < 8
                        /\ SubSeq(s, i, i + 2) # <<37, 50, 53>>)
            ELSE ~(mode = "host" /\ s[i] # 43 /\ s[i] < 128
                    /\ shouldEscape(s[i], "host")))

RECURSIVE unescapeFrom(_, _, _)
\* the decoding pass of url.unescape, from byte i on
unescapeFrom(s, i, mode) ==
    IF i > Len(s) THEN <<>>
    ELSE IF s[i] = 37
         THEN <<16 * UnHex(s[i + 1]) + UnHex(s[i + 2])>> \o unescapeFrom(s, i + 3, mode)
    ELSE IF s[i] = 43 /\ mode = "query"
         THEN <<32>> \o unescapeFrom(s, i + 1, mode)
    ELSE <<s[i]>> \o unescapeFrom(s, i + 1, mode)

\* url.unescape: [ok, val]
unescape(str, mode) ==
    With(str, LAMBDA s :
        IF unescapeOK(s, mode)
        THEN [ok |-> TRUE, val |-> unescapeFrom(s, 1, mode)]
        ELSE [ok |-> FALSE, val |-> <<>>])

\* url.QueryUnescape
QueryUnescape(s) == unescape(s, "query")

\* url.escape
escape(str, mode) ==
    With(str, LAMBDA s :
        Flatten([i \in 1..Len(s) |->
            IF shouldEscape(s[i], mode)
            THEN IF s[i] = 32 /\ mode = "query"
                 THEN <<43>>
                 ELSE <<37, UpperHexDigit(s[i] \div 16), UpperHexDigit(s[i] % 16)>>
            ELSE <<s[i]>>]))

\* url.QueryEscape
QueryEscape(s) == escape(s, "query")

\* url.validEncoded
validEncoded(str, mode) ==
    With(str, LAMBDA s :
        \A i \in 1..Len(s) :
            \/ s[i] \in {33, 36, 38, 39, 40, 41, 42, 43, 44, 59, 61, 58, 64, 91, 93, 37}
            \/ ~shouldEscape(s[i], mode))

\* what setPath and setFragment keep as the raw form of val, decoded from raw
rawHint(raw, val, mode) == IF escape(val, mode) = raw THEN <<>> ELSE raw

\* (*URL).EscapedPath and EscapedFragment: the raw form when it is a valid
\* encoding of val, else val escaped
escapedForm(raw, val, mode) ==
    IF raw # <<>> /\ validEncoded(raw, mode) /\ unescape(raw, mode) = [ok |-> TRUE, val |-> val]
    THEN raw
    ELSE IF val = <<42>> /\ mode = "path" THEN <<42>>
    ELSE escape(val, mode)

(***************************************************************************)
(* net/url: URL values, Parse, ParseRequestURI, String                     *)
(***************************************************************************)
\* the nil *url.URL
NilURL == [nil |-> TRUE]

\* the zero url.URL
emptyURL ==
    [nil |-> FALSE, Scheme |-> <<>>, Opaque |-> <<>>, Host |-> <<>>,
     Path |-> <<>>, RawPath |-> <<>>, OmitHost |-> FALSE, ForceQuery |-> FALSE,
     RawQuery |-> <<>>, Fragment |-> <<>>, RawFragment |-> <<>>]

\* a parse that failed: (nil, err)
parseFail == [ok |-> FALSE, url |-> NilURL]

parsed(u) == [ok |-> TRUE, url |-> u]

\* url.stringContainsCTLByte
stringContainsCTLByte(str) ==
    With(str, LAMBDA s : \E i \in 1..Len(s) : s[i] < 32 \/ s[i] = 127)

\* url.getScheme, i the first byte (0: none) that cannot continue a scheme:
\* [ok, scheme, rest]
getSchemeAt(raw, i) ==
    IF i = 0 \/ raw[i] # 58 THEN [ok |-> TRUE, scheme |-> <<>>, rest |-> raw]
    ELSE IF i = 1 THEN [ok |-> FALSE, scheme |-> <<>>, rest |-> <<>>]
    ELSE [ok |-> TRUE, scheme |-> SubSeq(raw, 1, i - 1), rest |-> From(raw, i + 1)]

\* url.getScheme
getScheme(rawURL) ==
    With(rawURL, LAMBDA raw :
        With(MinOr0({i \in 1..Len(raw) :
                ~(\/ IsLower(raw[i]) \/ IsUpper(raw[i])
                  \/ (i > 1 /\ (IsDigit(raw[i]) \/ raw[i] \in {43, 45, 46})))}),
             LAMBDA i : getSchemeAt(raw, i)))

\* url.validOptionalPort on what follows the last colon of the host
validOptionalPort(hostport) ==
    With(hostport, LAMBDA host :
        \A i \in 1..Len(host) :
            host[i] = 58 => \/ \E k \in (i + 1)..Len(host) : host[k] = 58
                            \/ \A k \in (i + 1)..Len(host) : IsDigit(host[k]))

\* url.parseAuthority succeeds, for authorities without userinfo and IP literals
hostOK(authority) ==
    /\ ~Contains(authority, <<64>>)
    /\ ~Contains(authority, <<91>>)
    /\ validOptionalPort(authority)
    /\ unescapeOK(authority, "host")

\* url.parse from setPath on: u with the path p set
parsePath(u, p) ==
    With(unescape(p, "path"), LAMBDA path :
        IF ~path.ok THEN parseFail
        ELSE parsed([u EXCEPT !.Path = path.val,
                              !.RawPath = rawHint(p, path.val, "path")]))

\* url.parse from the authority on: authority is rest without its "//"
parseAuthority(u, authority, slash) ==
    With2(IF slash = 0 THEN authority ELSE SubSeq(authority, 1, slash - 1),
          IF slash = 0 THEN <<>> ELSE From(authority, slash),
          LAMBDA host, p :
            IF ~hostOK(host) THEN parseFail
            ELSE With([u EXCEPT !.Host = unescapeFrom(host, 1, "host")],
                      LAMBDA uh : parsePath(uh, p)))

\* url.parse once the scheme and the query are split off rest
parseRest(u, rest, viaRequest) ==
    IF ~HasPrefix(rest, <<47>>) /\ u.Scheme # <<>>
    THEN parsed([u EXCEPT !.Opaque = rest])
    ELSE IF ~HasPrefix(rest, <<47>>) /\ viaRequest THEN parseFail
    ELSE IF ~HasPrefix(rest, <<47>>) /\ Contains(Cut(rest, <<47>>).before, <<58>>)
    THEN parseFail
    ELSE IF /\ (u.Scheme # <<>> \/ (~viaRequest /\ ~HasPrefix(rest, <<47, 47, 47>>)))
            /\ HasPrefix(rest, <<47, 47>>)
    THEN With(From(rest, 3), LAMBDA authority :
            With(Index(authority, <<47>>), LAMBDA slash :
                parseAuthority(u, authority, slash)))
    ELSE With([u EXCEPT !.OmitHost = u.Scheme # <<>> /\ HasPrefix(rest, <<47>>)],
              LAMBDA uo : parsePath(uo, rest))

\* url.parse once the scheme is split off: rest is what follows it
parseQuery(scheme, rest, viaRequest) ==
    IF Len(rest) > 0 /\ rest[Len(rest)] = 63 /\ CountByte(rest, 63) = 1
    THEN With2([emptyURL EXCEPT !.Scheme = scheme, !.ForceQuery = TRUE],
               SubSeq(rest, 1, Len(rest) - 1),
               LAMBDA u, r : parseRest(u, r, viaRequest))
    ELSE With(Cut(rest, <<63>>), LAMBDA c :
            With([emptyURL EXCEPT !.Scheme = scheme, !.RawQuery = c.after],
                 LAMBDA u : parseRest(u, c.before, viaRequest)))

\* url.parse from getScheme on
parseScheme(gs, viaRequest) ==
    IF ~gs.ok THEN parseFail
    ELSE With(ToLower(gs.scheme), LAMBDA scheme : parseQuery(scheme, gs.rest, viaRequest))

\* url.parse(rawURL, viaRequest): [ok, url]
parse(rawURL, viaRequest) ==
    IF stringContainsCTLByte(rawURL) THEN parseFail
    ELSE IF rawURL = <<>> /\ viaRequest THEN parseFail
    ELSE IF rawURL = <<42>> THEN parsed([emptyURL EXCEPT !.Path = <<42>>])
    ELSE With(getScheme(rawURL), LAMBDA gs : parseScheme(gs, viaRequest))

\* url.Parse from setFragment on: r is the parse of what precedes the "#"
parseFragment(r, frag) ==
    IF ~r.ok THEN parseFail
    ELSE IF frag = <<>> THEN r
    ELSE With(unescape(frag, "fragment"), LAMBDA f :
            IF ~f.ok THEN parseFail
            ELSE parsed([r.url EXCEPT !.Fragment = f.val,
                                      !.RawFragment = rawHint(frag, f.val, "fragment")]))

\* url.Parse: [ok, url]
URLParse(rawURL) ==
    With(Cut(rawURL, <<35>>), LAMBDA c :
        With(parse(c.before, FALSE), LAMBDA r : parseFragment(r, c.after)))

\* url.ParseRequestURI: [ok, url]
URLParseRequestURI(rawURL) == With(rawURL, LAMBDA raw : parse(raw, TRUE))

\* (*URL).String, path being u.EscapedPath()
stringOf(u, path) ==
    (IF u.Scheme # <<>> THEN u.Scheme \o <<58>> ELSE <<>>)
    \o (IF u.Opaque # <<>> THEN u.Opaque
        ELSE (IF (u.Scheme # <<>> \/ u.Host # <<>>) /\ ~(u.OmitHost /\ u.Host = <<>>)
              THEN (IF u.Host # <<>> \/ u.Path # <<>> THEN <<47, 47>> ELSE <<>>)
                   \o escape(u.Host, "host")
              ELSE <<>>)
             \o (IF path # <<>> /\ path[1] # 47 /\ u.Host # <<>> THEN <<47>> ELSE <<>>)
             \o (IF u.Scheme = <<>> /\ u.Host = <<>>
                    /\ Contains(Cut(path, <<47>>).before, <<58>>)
                 THEN <<46, 47>> ELSE <<>>)
             \o path)
    \o (IF u.ForceQuery \/ u.RawQuery # <<>> THEN <<63>> \o u.RawQuery ELSE <<>>)
    \o (IF u.Fragment # <<>>
        THEN <<35>> \o escapedForm(u.RawFragment, u.Fragment, "fragment") ELSE <<>>)

\* (*URL).String
URLString(url) ==
    With(url, LAMBDA u :
        With(escapedForm(u.RawPath, u.Path, "path"), LAMBDA path : stringOf(u, path)))

\* (*URL).IsAbs
IsAbs(u) == u.Scheme # <<>>

RECURSIVE Split(_, _)
\* strings.Split(s, sep) for a one-byte separator
Split(s, c) ==
    With(Cut(s, <<c>>), LAMBDA k :
        IF ~k.found THEN <<k.before>> ELSE <<k.before>> \o Split(k.after, c))

\* url.ParseQuery keeps a pair: it is well formed
pairOK(seg) ==
    /\ seg # <<>>
    /\ ~Contains(seg, <<59>>)
    /\ With(Cut(seg, <<61>>), LAMBDA kv :
            unescapeOK(kv.before, "query") /\ unescapeOK(kv.after, "query"))

\* len(u.Query()) > 0
HasQuery(u) ==
    With(Split(u.RawQuery, 38), LAMBDA segs : \E i \in 1..Len(segs) : pairOK(segs[i]))

(***************************************************************************)
(* String literals of goscraper.go                                         *)
(***************************************************************************)
\* var EscapedFragment = "_escaped_fragment_="
EscapedFragment ==
    <<95, 101, 115, 99, 97, 112, 101, 100, 95, 102, 114, 97, 103, 109, 101, 110, 116,
      95, 61>>

\* "#!"
s_hashbang == <<35, 33>>

\* "head"
s_head == <<104, 101, 97, 100>>

\* "body"
s_body == <<98, 111, 100, 121>>

\* "link"
s_link == <<108, 105, 110, 107>>

\* "meta"
s_meta == <<109, 101, 116, 97>>

\* "title"
s_title == <<116, 105, 116, 108, 101>>

\* "img"
s_img == <<105, 109, 103>>

\* "rel"
s_rel == <<114, 101, 108>>

\* "canonical"
s_canonical == <<99, 97, 110, 111, 110, 105, 99, 97, 108>>

\* "shortcut icon"
s_shortcut_icon == <<115, 104, 111, 114, 116, 99, 117, 116, 32, 105, 99, 111, 110>>

\* "icon"
s_icon == <<105, 99, 111, 110>>

\* "href"
s_href == <<104, 114, 101, 102>>

\* "property"
s_property == <<112, 114, 111, 112, 101, 114, 116, 121>>

\* "name"
s_name == <<110, 97, 109, 101>>

\* "content"
s_content == <<99, 111, 110, 116, 101, 110, 116>>

\* "src"
s_src == <<115, 114, 99>>

\* "og:site_name"
s_og_site_name == <<111, 103, 58, 115, 105, 116, 101, 95, 110, 97, 109, 101>>

\* "og:title"
s_og_title == <<111, 103, 58, 116, 105, 116, 108, 101>>

\* "og:description"
s_og_description == <<111, 103, 58, 100, 101, 115, 99, 114, 105, 112, 116, 105, 111, 110>>

\* "description"
s_description == <<100, 101, 115, 99, 114, 105, 112, 116, 105, 111, 110>>

\* "og:url"
s_og_url == <<111, 103, 58, 117, 114, 108>>

\* "og:image"
s_og_image == <<111, 103, 58, 105, 109, 97, 103, 101>>

\* "fragment"
s_fragment == <<102, 114, 97, 103, 109, 101, 110, 116>>

\* "!"
s_bang == <<33>>

\* "/favicon.ico"
s_favicon == <<47, 102, 97, 118, 105, 99, 111, 110, 46, 105, 99, 111>>

\* "http"
s_http == <<104, 116, 116, 112>>

\* "https"
s_https == <<104, 116, 116, 112, 115>>

(***************************************************************************)
(* UTF-8, as `for _, r := range s` and string(r) see it                    *)
(***************************************************************************)
\* utf8.RuneError
RuneError == 65533

IsCont(s, i) == i <= Len(s) /\ s[i] >= 128 /\ s[i] <= 191

\* what decoding yields at an invalid byte
badRune == [r |-> RuneError, size |-> 1]

\* utf8.DecodeRuneInString(s[i:]): [r, size]
DecodeRune(s, i) ==
    IF s[i] < 128 THEN [r |-> s[i], size |-> 1]
    ELSE IF s[i] >= 194 /\ s[i] <= 223
    THEN IF IsCont(s, i + 1)
         THEN [r |-> (s[i] % 32) * 64 + (s[i + 1] % 64), size |-> 2]
         ELSE badRune
    ELSE IF s[i] >= 224 /\ s[i] <= 239
    THEN IF /\ IsCont(s, i + 1) /\ IsCont(s, i + 2)
            /\ (s[i] = 224 => s[i + 1] >= 160)
            /\ (s[i] = 237 => s[i + 1] <= 159)
         THEN [r |-> (s[i] % 16) * 4096 + (s[i + 1] % 64) * 64 + (s[i + 2] % 64),
               size |-> 3]
         ELSE badRune
    ELSE IF s[i] >= 240 /\ s[i] <= 244
    THEN IF /\ IsCont(s, i + 1) /\ IsCont(s, i + 2) /\ IsCont(s, i + 3)
            /\ (s[i] = 240 => s[i + 1] >= 144)
            /\ (s[i] = 244 => s[i + 1] <= 143)
         THEN [r |-> (s[i] % 8) * 262144 + (s[i + 1] % 64) * 4096
                       + (s[i + 2] % 64) * 64 + (s[i + 3] % 64),
               size |-> 4]
         ELSE badRune
    ELSE badRune

RECURSIVE RunesFrom(_, _)
\* the runes `range s` yields once d is decoded at byte i
runesAfter(s, i, d) == <<d.r>> \o RunesFrom(s, i + d.size)

\* the runes `range s` yields from byte i on
RunesFrom(s, i) ==
    IF i > Len(s) THEN <<>> ELSE With(DecodeRune(s, i), LAMBDA d : runesAfter(s, i, d))

\* string(r)
RuneString(r) ==
    IF r < 128 THEN <<r>>
    ELSE IF r < 2048 THEN <<192 + (r \div 64), 128 + (r % 64)>>
    ELSE IF (r >= 55296 /\ r <= 57343) \/ r > 1114111 THEN <<239, 191, 189>>
    ELSE IF r < 65536
    THEN <<224 + (r \div 4096), 128 + ((r \div 64) % 64), 128 + (r % 64)>>
    ELSE <<240 + (r \div 262144), 128 + ((r \div 4096) % 64),
           128 + ((r \div 64) % 64), 128 + (r % 64)>>

(***************************************************************************)
(* goscraper.go: avoidByte, escapeByte, getUrl, toFragmentUrl              *)
(***************************************************************************)
\* func avoidByte
avoidByte(b) == b = 127 \/ (b >= 0 /\ b <= 31)

\* func escapeByte
escapeByte(b) == b \in {32, 35, 37, 38, 43} \/ (b >= 127 /\ b <= 255)

\* byte(r)
ByteOf(r) == r % 256

\* the loop of toFragmentUrl over the runes rs of matches[1]
encodeRunes(rs) ==
    Flatten([i \in 1..Len(rs) |->
        IF avoidByte(ByteOf(rs[i])) THEN <<>>
        ELSE IF escapeByte(ByteOf(rs[i])) THEN QueryEscape(RuneString(rs[i]))
        ELSE RuneString(rs[i])])

\* escapedFragment without its EscapedFragment prefix
encodeFragment(payload) ==
    With(payload, LAMBDA s : With(RunesFrom(s, 1), LAMBDA rs : encodeRunes(rs)))

\* where the match of "(.*)" that starts at byte i ends: before the next line feed
lineEnd(s, i) ==
    With({k \in i..Len(s) : s[k] = 10},
         LAMBDA NL : IF NL = {} THEN Len(s) ELSE MinOf(NL) - 1)

\* fragmentRegexp.FindStringSubmatch once the leftmost "#!" is found at i
submatchAt(s, i) ==
    IF i = 0
    THEN [found |-> FALSE, all |-> <<>>, sub |-> <<>>]
    ELSE With(lineEnd(s, i + 2), LAMBDA e :
            [found |-> TRUE, all |-> SubSeq(s, i, e), sub |-> SubSeq(s, i + 2, e)])

\* fragmentRegexp.FindStringSubmatch, fragmentRegexp = "#!(.*)"
FindFragment(s) == With(Index(s, s_hashbang), LAMBDA i : submatchAt(s, i))

\* strings.Replace(s, old, new, 1)
ReplaceFirst(s, old, new) ==
    With(Cut(s, old), LAMBDA c : IF ~c.found THEN s ELSE c.before \o new \o c.after)

\* func (scraper *Scraper) getUrl
getUrl(s) ==
    IF ~s.EscapedFragmentUrl.nil
    THEN URLString(s.EscapedFragmentUrl)
    ELSE URLString(s.Url)

\* p of toFragmentUrl: "&" when the URL has query parameters, else "?"
querySep(u) == IF HasQuery(u) THEN <<38>> ELSE <<63>>

\* the string toFragmentUrl parses
fragmentUrlString(unescapedurl, matches, p) ==
    IF matches.found
    THEN ReplaceFirst(unescapedurl, matches.all,
                      p \o EscapedFragment \o encodeFragment(matches.sub))
    ELSE unescapedurl \o p \o EscapedFragment

\* toFragmentUrl from the parse of the fragment URL on
setFragmentUrl(s, fragmentUrl) ==
    IF ~fragmentUrl.ok THEN [err |-> TRUE, s |-> s]
    ELSE [err |-> FALSE, s |-> [s EXCEPT !.EscapedFragmentUrl = fragmentUrl.url]]

\* toFragmentUrl from the unescaping of the URL on
fragmentOf(s, un) ==
    IF ~un.ok THEN [err |-> TRUE, s |-> s]
    ELSE With2(FindFragment(un.val), querySep(s.Url), LAMBDA matches, p :
            With(URLParse(fragmentUrlString(un.val, matches, p)),
                 LAMBDA fragmentUrl : setFragmentUrl(s, fragmentUrl)))

\* func (scraper *Scraper) toFragmentUrl: [err, s], s the scraper afterwards
toFragmentUrl(s) ==
    With(QueryUnescape(URLString(s.Url)), LAMBDA un : fragmentOf(s, un))

(***************************************************************************)
(* html tokens: [Type, Data, Attr], Attr a sequence of [Key, Val]          *)
(***************************************************************************)
Attr(k, v) == [Key |-> k, Val |-> v]

StartTag(data, attr) == [Type |-> "StartTag", Data |-> data, Attr |-> attr]

EndTag(data) == [Type |-> "EndTag", Data |-> data, Attr |-> <<>>]

SelfClosingTag(data, attr) == [Type |-> "SelfClosingTag", Data |-> data, Attr |-> attr]

TextToken(data) == [Type |-> "Text", Data |-> data, Attr |-> <<>>]

\* html.ErrorToken: the end of the body, or a read error; Token() leaves Data empty
ErrorToken == [Type |-> "Error", Data |-> <<>>, Attr |-> <<>>]

\* no token: the title look-ahead did not run, or nothing is left unread
NoToken == [Type |-> "None", Data |-> <<>>, Attr |-> <<>>]

\* the token types the loop does not skip (line 188)
IsTag(tok) == tok.Type \in {"StartTag", "EndTag", "SelfClosingTag"}

(***************************************************************************)
(* goscraper.go: Document, DocumentPreview, the locals of parseDocument    *)
(***************************************************************************)
\* the zero DocumentPreview with Link set (getDocument, line 153)
NewPreview(link) ==
    [Title |-> <<>>, Description |-> <<>>, Images |-> <<>>, Link |-> link,
     Name |-> <<>>, Icon |-> <<>>]

\* no *Document: before the first fetch, and what Scrape returns with an error
NoDoc == [nil |-> TRUE]

NewDoc(link) == [nil |-> FALSE, Preview |-> NewPreview(link)]

\* the locals of parseDocument before it runs; n and eof are the tokenizer's
\* position: the tokens read, and whether it has reported the end of the body
NoScan ==
    [ogImage |-> FALSE, headPassed |-> FALSE, hasFragment |-> FALSE,
     hasCanonical |-> FALSE, canonicalUrl |-> NilURL, link |-> <<>>,
     n |-> 0, eof |-> FALSE]

\* what the switch of one token gives: the preview, the locals, and whether it
\* returned an error
switched(p, sc, err) == [p |-> p, sc |-> sc, err |-> err]

\* the value a loop `if cleanStr(attr.Key) == k { v = attr.Val }` leaves in v:
\* that of the last attribute whose key is in keys, I the indices of these
valAt(attrs, I) == IF I = {} THEN <<>> ELSE attrs[MaxOf(I)].Val

lastVal(attrs, keys) ==
    With({i \in 1..Len(attrs) : cleanStr(attrs[i].Key) \in keys},
         LAMBDA I : valAt(attrs, I))

\* func metaFragment
metaFragment(tok) ==
    /\ lastVal(tok.Attr, {s_name}) = s_fragment
    /\ lastVal(tok.Attr, {s_content}) = s_bang

\* the icon of one href attribute once newUrl is composed (lines 212-221)
iconFrom(icon, href, newUrl) ==
    IF ~URLParseRequestURI(href).ok \/ (Len(href) > 0 /\ href[1] = 47)
    THEN IF URLParseRequestURI(newUrl).ok THEN newUrl ELSE icon
    ELSE href

\* the icon of one href attribute (lines 211-221): the new Icon
iconOf(s, icon, href) ==
    With(Sprintf3(s.Url.Scheme, s.Url.Host, href),
         LAMBDA newUrl : iconFrom(icon, href, newUrl))

RECURSIVE iconAttrs(_, _, _, _)
\* for _, a := range token.Attr { if a.Key == "href" ... } (lines 209-223)
iconAttrs(s, attrs, j, icon) ==
    IF j > Len(attrs) THEN icon
    ELSE With(IF attrs[j].Key = s_href THEN iconOf(s, icon, attrs[j].Val) ELSE icon,
              LAMBDA next : iconAttrs(s, attrs, j + 1, next))

\* iconAllowed without the host rule: an icon link overrides on every host
iconAllowedAlways(s) == TRUE

\* the host rule of the icon link (line 208)
iconAllowed(s) == s.Url.Host = s.Target.Host

\* the condition of line 208 on one attribute
relIcon(s, attr) ==
    /\ cleanStr(attr.Key) = s_rel
    /\ cleanStr(attr.Val) \in {s_shortcut_icon, s_icon}
    /\ iconAllowed(s)

\* lines 208-224 on one attribute: the new Icon
linkIcon(s, attrs, attr, icon) ==
    IF relIcon(s, attr) THEN iconAttrs(s, attrs, 1, icon) ELSE icon

\* the condition of line 205 on one attribute
relCanonical(attr) == cleanStr(attr.Key) = s_rel /\ cleanStr(attr.Val) = s_canonical

\* href after lines 204 and 225-227: declared empty in every iteration
hrefOf(attr) == IF cleanStr(attr.Key) = s_href THEN attr.Val ELSE <<>>

\* `link != href` (line 228)
canonicalDiffers(link, href) == link # href

\* the condition of line 228
canonicalFound(link, canonical, href) ==
    Len(href) > 0 /\ canonical /\ canonicalDiffers(link, href)

\* lines 229-234, cu the parse of href: st = [p, sc, canonical, err]
linkStep(st, icon, canonical, found, cu) ==
    [p  |-> [st.p EXCEPT !.Icon = icon],
     sc |-> IF found
            THEN [st.sc EXCEPT !.hasCanonical = TRUE, !.canonicalUrl = cu.url]
            ELSE st.sc,
     canonical |-> canonical,
     err |-> found /\ ~cu.ok]

\* one iteration of the loop over token.Attr (lines 204-235), canonical and href
\* being what lines 205-207 and 225-227 leave
linkAttr(s, attrs, attr, st, canonical, href) ==
    With2(canonicalFound(st.sc.link, canonical, href), URLParse(href),
          LAMBDA found, cu :
            linkStep(st, linkIcon(s, attrs, attr, st.p.Icon), canonical, found, cu))

RECURSIVE linkAttrs(_, _, _, _)
\* case "link": the loop over token.Attr from attribute i on (lines 203-236)
linkAttrs(s, attrs, i, st) ==
    IF i > Len(attrs) \/ st.err THEN st
    ELSE With2(st.canonical \/ relCanonical(attrs[i]), hrefOf(attrs[i]),
               LAMBDA canonical, href :
                 With(linkAttr(s, attrs, attrs[i], st, canonical, href),
                      LAMBDA next : linkAttrs(s, attrs, i + 1, next)))

\* case "link" (lines 201-236)
linkCase(s, p, sc, tok) ==
    linkAttrs(s, tok.Attr, 1, [p |-> p, sc |-> sc, canonical |-> FALSE, err |-> FALSE])

\* lines 242-244
withFragment(s, sc, tok) ==
    IF metaFragment(tok) /\ s.EscapedFragmentUrl.nil
    THEN [sc EXCEPT !.hasFragment = TRUE] ELSE sc

\* ogImages that keeps what Images holds and adds the entry
ogImagesAppended(images, entry) == Append(images, entry)

\* `doc.Preview.Images = []string{ogImgUrl.String()}` (line 281)
ogImages(images, entry) == <<entry>>

\* the Open Graph image made absolute (lines 274-279): [ok, url]
absOgImage(s, ogImgUrl) ==
    IF ~IsAbs(ogImgUrl)
    THEN URLParse(Sprintf3(s.Url.Scheme, s.Url.Host, ogImgUrl.Path))
    ELSE parsed(ogImgUrl)

\* lines 276-281, abs the absolute Open Graph image URL
ogImageSet(p, sc, abs) ==
    IF ~abs.ok THEN switched(p, sc, TRUE)
    ELSE switched([p EXCEPT !.Images = ogImages(@, URLString(abs.url))], sc, FALSE)

\* case "og:image" (lines 269-281), ogImgUrl the parse of content
ogImageCase(s, p, sc, ogImgUrl) ==
    IF ~ogImgUrl.ok THEN switched(p, sc, TRUE)
    ELSE With(absOgImage(s, ogImgUrl.url), LAMBDA abs : ogImageSet(p, sc, abs))

\* `switch cleanStr(property)` (lines 255-283)
metaSwitch(s, p, sc, property, content) ==
    IF property = s_og_site_name THEN switched([p EXCEPT !.Name = content], sc, FALSE)
    ELSE IF property = s_og_title THEN switched([p EXCEPT !.Title = content], sc, FALSE)
    ELSE IF property = s_og_description
    THEN switched([p EXCEPT !.Description = content], sc, FALSE)
    ELSE IF property = s_description
    THEN switched(IF Len(p.Description) = 0 THEN [p EXCEPT !.Description = content] ELSE p,
                  sc, FALSE)
    ELSE IF property = s_og_url THEN switched([p EXCEPT !.Link = content], sc, FALSE)
    ELSE IF property = s_og_image
    THEN With(URLParse(content),
              LAMBDA ogImgUrl : ogImageCase(s, p, [sc EXCEPT !.ogImage = TRUE], ogImgUrl))
    ELSE switched(p, sc, FALSE)

\* case "meta" (lines 238-283)
metaCase(s, p, sc, tok) ==
    IF Len(tok.Attr) # 2 THEN switched(p, sc, FALSE)
    ELSE With2(cleanStr(lastVal(tok.Attr, {s_property, s_name})),
               lastVal(tok.Attr, {s_content}),
               LAMBDA property, content :
                 With(withFragment(s, sc, tok),
                      LAMBDA sc1 : metaSwitch(s, p, sc1, property, content)))

\* case "title" (lines 285-292): la is the token t.Next() gives inside the case
titleCase(p, tok, la) ==
    IF tok.Type = "StartTag" /\ Len(p.Title) = 0
    THEN [p EXCEPT !.Title = la.Data]
    ELSE p

\* the `append` of case "img" (lines 302, 304)
imgAppend(images, entry) == Append(images, entry)

\* lines 298-305, imgUrl the parse of the src attribute val: st = [p, err]
imgSrc(s, st, val, imgUrl) ==
    IF ~imgUrl.ok THEN [st EXCEPT !.err = TRUE]
    ELSE [st EXCEPT !.p.Images = imgAppend(@,
              IF ~IsAbs(imgUrl.url)
              THEN Sprintf3(s.Url.Scheme, s.Url.Host, imgUrl.url.Path)
              ELSE val)]

RECURSIVE imgAttrs(_, _, _, _)
\* case "img": the loop over token.Attr (lines 295-308)
imgAttrs(s, attrs, i, st) ==
    IF i > Len(attrs) \/ st.err THEN st
    ELSE IF cleanStr(attrs[i].Key) # s_src THEN imgAttrs(s, attrs, i + 1, st)
    ELSE With(URLParse(attrs[i].Val), LAMBDA imgUrl :
            With(imgSrc(s, st, attrs[i].Val, imgUrl),
                 LAMBDA next : imgAttrs(s, attrs, i + 1, next)))

\* case "img" (lines 294-308)
imgCase(s, p, tok) == imgAttrs(s, tok.Attr, 1, [p |-> p, err |-> FALSE])

\* the preview and the error of a case that leaves the locals alone
keepScan(r, sc) == switched(r.p, sc, r.err)

\* the preview, the locals and the error of case "link"
dropCanonical(r) == switched(r.p, r.sc, r.err)

\* `switch token.Data` (lines 193-309): [p, sc, err]
tagSwitch(s, p, sc, tok, la) ==
    IF tok.Data = s_head
    THEN switched(p, IF tok.Type = "EndTag" THEN [sc EXCEPT !.headPassed = TRUE] ELSE sc,
                  FALSE)
    ELSE IF tok.Data = s_body THEN switched(p, [sc EXCEPT !.headPassed = TRUE], FALSE)
    ELSE IF tok.Data = s_link THEN With(linkCase(s, p, sc, tok), dropCanonical)
    ELSE IF tok.Data = s_meta THEN metaCase(s, p, sc, tok)
    ELSE IF tok.Data = s_title THEN switched(titleCase(p, tok, la), sc, FALSE)
    ELSE IF tok.Data = s_img THEN With(imgCase(s, p, tok), LAMBDA r : keepScan(r, sc))
    ELSE switched(p, sc, FALSE)

\* budgetLeft with the comparison one off: a budget of 0 still redirects
budgetLeftAtZero(maxRedirect) == maxRedirect >= 0

\* budgetLeft testing for exhaustion by equality: a negative budget redirects
budgetLeftNonZero(maxRedirect) == maxRedirect # 0

\* `scraper.MaxRedirect > 0` (lines 311, 329)
budgetLeft(maxRedirect) == maxRedirect > 0

\* canonicalDue that gives way to a pending fragment signal
canonicalDueAfterFragment(s, sc) ==
    sc.hasCanonical /\ sc.headPassed /\ budgetLeft(s.MaxRedirect) /\ ~sc.hasFragment

\* the canonical redirect is due (line 311)
canonicalDue(s, sc) == sc.hasCanonical /\ sc.headPassed /\ budgetLeft(s.MaxRedirect)

\* fragmentDue that does not wait for the head to be passed
fragmentDueInHead(s, sc) == sc.hasFragment /\ budgetLeft(s.MaxRedirect)

\* the fragment redirect is due (line 329)
fragmentDue(s, sc) == sc.hasFragment /\ sc.headPassed /\ budgetLeft(s.MaxRedirect)

\* the early exit (line 339)
earlyExit(p, sc) ==
    Len(p.Title) > 0 /\ Len(p.Description) > 0 /\ sc.ogImage /\ sc.headPassed

\* the canonical URL made absolute (lines 312-318): [ok, url]
absCanonical(s, canonicalUrl) ==
    IF ~IsAbs(canonicalUrl)
    THEN URLParse(Sprintf3(s.Url.Scheme, s.Url.Host, canonicalUrl.Path))
    ELSE parsed(canonicalUrl)

\* how one iteration of the loop ends: exit is "end" (the body ended, line 186),
\* "skip" (not a tag, line 189), "error" (an error is returned), "canonical" or
\* "fragment" (the scraper s is about to fetch again, lines 321, 331), "early"
\* (line 340) or "next"; tfErr: the toFragmentUrl of line 330 returned an error
outcome(exit, s, r, tfErr) ==
    [exit |-> exit, s |-> s, p |-> r.p, sc |-> r.sc, tfErr |-> tfErr]

\* lines 312-320, abs the canonical URL made absolute
canonicalRedirect(s, r, abs) ==
    IF ~abs.ok THEN outcome("error", s, r, FALSE)
    ELSE outcome("canonical",
                 [s EXCEPT !.Url = abs.url, !.EscapedFragmentUrl = NilURL], r, FALSE)

\* line 330: the error toFragmentUrl returns is dropped
fragmentRedirect(s, r, tf) == outcome("fragment", tf.s, r, tf.err)

\* lines 311-342, r what the switch gave
afterSwitch(s, r) ==
    IF r.err THEN outcome("error", s, r, FALSE)
    ELSE IF canonicalDue(s, r.sc)
    THEN With(absCanonical(s, r.sc.canonicalUrl), LAMBDA abs : canonicalRedirect(s, r, abs))
    ELSE IF fragmentDue(s, r.sc)
    THEN With(toFragmentUrl(s), LAMBDA tf : fragmentRedirect(s, r, tf))
    ELSE IF earlyExit(r.p, r.sc) THEN outcome("early", s, r, FALSE)
    ELSE outcome("next", s, r, FALSE)

\* one iteration of the loop of parseDocument (lines 183-343) on token tok
iteration(s, p, sc, tok, la) ==
    IF tok.Type = "Error" THEN outcome("end", s, switched(p, sc, FALSE), FALSE)
    ELSE IF ~IsTag(tok) THEN outcome("skip", s, switched(p, sc, FALSE), FALSE)
    ELSE With(tagSwitch(s, p, sc, tok, la), LAMBDA r : afterSwitch(s, r))

\* where control is after an iteration
pcAfter(exit) ==
    IF exit \in {"end", "early"} THEN "done"
    ELSE IF exit = "error" THEN "error"
    ELSE IF exit \in {"canonical", "fragment"} THEN "getDocument"
    ELSE "loop"

(***************************************************************************)
(* Inputs: the URIs, attribute values and tokens the model draws from      *)
(***************************************************************************)
\* "http://a/p"
u_plain == <<104, 116, 116, 112, 58, 47, 47, 97, 47, 112>>

\* "http://a/p#!x"
u_bang == <<104, 116, 116, 112, 58, 47, 47, 97, 47, 112, 35, 33, 120>>

\* "http://a/?%#!x"
u_badq_bang == <<104, 116, 116, 112, 58, 47, 47, 97, 47, 63, 37, 35, 33, 120>>

\* "http://a/?%"
u_badq == <<104, 116, 116, 112, 58, 47, 47, 97, 47, 63, 37>>

\* ":"
u_invalid == <<58>>

\* "http://b/r"
u_moved == <<104, 116, 116, 112, 58, 47, 47, 98, 47, 114>>

\* "http://b/c"
h_other == <<104, 116, 116, 112, 58, 47, 47, 98, 47, 99>>

\* "/p"
h_rel == <<47, 112>>

\* "%"
h_bad == <<37>>

\* "/i"
i_rel == <<47, 105>>

\* "http://c/i"
i_abs == <<104, 116, 116, 112, 58, 47, 47, 99, 47, 105>>

\* "/%"
i_bad == <<47, 37>>

\* "T"
v_T == <<84>>

\* "O"
v_O == <<79>>

\* "D"
v_D == <<68>>

\* "E"
v_E == <<69>>

\* "N"
v_N == <<78>>

\* "x"
v_x == <<120>>

\* "p"
v_p == <<112>>

\* "lang"
v_lang == <<108, 97, 110, 103>>

\* "http://a/o"
o_abs == <<104, 116, 116, 112, 58, 47, 47, 97, 47, 111>>

\* "/o"
o_rel == <<47, 111>>

\* "http://a/u"
v_u == <<104, 116, 116, 112, 58, 47, 47, 97, 47, 117>>

t_headEnd == EndTag(s_head)

t_body == StartTag(s_body, <<>>)

t_canonical == StartTag(s_link, <<Attr(s_rel, s_canonical), Attr(s_href, h_other)>>)

t_canonicalHrefFirst == StartTag(s_link, <<Attr(s_href, h_other), Attr(s_rel, s_canonical)>>)

t_canonicalRel == StartTag(s_link, <<Attr(s_rel, s_canonical), Attr(s_href, h_rel)>>)

t_canonicalBad == StartTag(s_link, <<Attr(s_rel, s_canonical), Attr(s_href, h_bad)>>)

t_metaFragment == StartTag(s_meta, <<Attr(s_name, s_fragment), Attr(s_content, s_bang)>>)

t_iconRel == StartTag(s_link, <<Attr(s_rel, s_icon), Attr(s_href, i_rel)>>)

t_iconAbs == StartTag(s_link, <<Attr(s_href, i_abs), Attr(s_rel, s_shortcut_icon)>>)

t_iconBad == StartTag(s_link, <<Attr(s_rel, s_icon), Attr(s_href, i_bad)>>)

t_ogTitle == StartTag(s_meta, <<Attr(s_property, s_og_title), Attr(s_content, v_O)>>)

t_description == StartTag(s_meta, <<Attr(s_name, s_description), Attr(s_content, v_D)>>)

t_ogDescription ==
    StartTag(s_meta, <<Attr(s_property, s_og_description), Attr(s_content, v_E)>>)

t_meta3 ==
    StartTag(s_meta, <<Attr(s_property, s_og_description), Attr(s_content, v_E),
                       Attr(v_lang, v_x)>>)

t_ogImage == StartTag(s_meta, <<Attr(s_property, s_og_image), Attr(s_content, o_abs)>>)

t_ogImageRel == StartTag(s_meta, <<Attr(s_property, s_og_image), Attr(s_content, o_rel)>>)

t_ogImageBad == StartTag(s_meta, <<Attr(s_property, s_og_image), Attr(s_content, h_bad)>>)

t_ogUrl == StartTag(s_meta, <<Attr(s_property, s_og_url), Attr(s_content, v_u)>>)

t_siteName == StartTag(s_meta, <<Attr(s_property, s_og_site_name), Attr(s_content, v_N)>>)

t_title == StartTag(s_title, <<>>)

t_titleEnd == EndTag(s_title)

t_titleText == TextToken(v_T)

t_img == SelfClosingTag(s_img, <<Attr(s_src, i_rel)>>)

t_imgAbs == StartTag(s_img, <<Attr(s_src, i_abs)>>)

t_text == TextToken(v_x)

t_p == StartTag(v_p, <<>>)

(***************************************************************************)
(* The state machine                                                       *)
(*   pc       where the call is: "Scrape", "getDocument", "parseDocument", *)
(*            "loop" (the token loop), "done" (a Document is returned),    *)
(*            "error" (an error is returned)                               *)
(*   scraper  the Scraper                                                  *)
(*   doc      the Document (its Preview); its Body is what the tokenizer   *)
(*            has not read yet, drawn token by token                       *)
(*   scan     the locals of parseDocument and the tokenizer's position     *)
(*   hist     history: the arguments of Scrape and what happened so far    *)
(*            (fetches: the calls of getDocument; req: the URL of the last *)
(*            request; via: what led to the last fetch; err: which step    *)
(*            returned the error; tfErr: a toFragmentUrl returned an error;*)
(*            read: the tokens read from the current document; last: the   *)
(*            token of the last iteration; unread: the token after the     *)
(*            last one read, when the scan stopped before the end of the   *)
(*            body)                                                        *)
(***************************************************************************)
\* the most tokens a scan reads from one body
MaxTokens == 3

\* the largest maxRedirect a caller passes
MaxBudget == 3

NoScraper ==
    [Url |-> NilURL, Target |-> NilURL, EscapedFragmentUrl |-> NilURL, MaxRedirect |-> 0]

InitWith(uris, budgets) ==
    /\ pc = "Scrape"
    /\ scraper = NoScraper
    /\ doc = NoDoc
    /\ scan = NoScan
    /\ hist \in [uri : uris, maxRedirect : budgets, fetches : {0}, req : {<<>>},
                 via : {"start"}, err : {"none"}, tfErr : {FALSE},
                 read : {<<>>}, last : {NoToken}, unread : {NoToken}]

\* Scrape from the parse of uri on (lines 46-49)
scrapeParsed(u) ==
    /\ pc' = IF u.ok THEN "getDocument" ELSE "error"
    /\ scraper' = IF u.ok
                  THEN [Url |-> u.url, Target |-> u.url, EscapedFragmentUrl |-> NilURL,
                        MaxRedirect |-> hist.maxRedirect]
                  ELSE scraper
    /\ hist' = IF u.ok THEN hist ELSE [hist EXCEPT !.err = "uri"]
    /\ UNCHANGED <<doc, scan>>

\* func Scrape(uri, maxRedirect, language, authorization) (lines 44-50)
Scrape == pc = "Scrape" /\ \E u \in {URLParse(hist.uri)} : scrapeParsed(u)

\* decrement that leaves the budget alone
decrementNone(maxRedirect) == maxRedirect

\* `scraper.MaxRedirect -= 1` (line 115)
decrement(maxRedirect) == maxRedirect - 1

\* line 115
charge(s) == [s EXCEPT !.MaxRedirect = decrement(@)]

\* the condition of line 116
hasHashbang(s) == Contains(URLString(s.Url), s_hashbang)

\* lines 116-118: the error toFragmentUrl returns is dropped
hashbang(s) == IF hasHashbang(s) THEN toFragmentUrl(s).s ELSE s

\* lines 119-121
alreadyEscaped(s) ==
    IF Contains(URLString(s.Url), EscapedFragment)
    THEN [s EXCEPT !.EscapedFragmentUrl = s.Url] ELSE s

\* the scraper when getDocument builds the request (lines 115-121)
prepared(s) ==
    With(charge(s), LAMBDA s1 : With(hashbang(s1), LAMBDA s2 : alreadyEscaped(s2)))

\* http.DefaultClient.Do refuses a request it cannot send
canSend(u) == u.Scheme \in {s_http, s_https} /\ u.Host # <<>>

\* what the transport and the charset reader can answer: an error of either, or
\* a body served from the requested URL (final empty) or from the URL final that
\* HTTP redirects led to
Answers(finals) ==
    {[kind |-> "transport", final |-> <<>>]}
        \cup [kind : {"charset", "ok"}, final : {<<>>} \cup finals]

\* resp.Request.URL
servedFrom(req, ans) == IF ans.final = <<>> THEN req.url ELSE URLParse(ans.final).url

\* lines 145-148
followed(s, url, served) ==
    IF URLString(served) # url
    THEN [s EXCEPT !.EscapedFragmentUrl = NilURL, !.Url = served]
    ELSE s

\* the history once getDocument has run for the request of url
fetched(url, tfErr) ==
    [hist EXCEPT !.fetches = @ + 1, !.req = url, !.tfErr = @ \/ tfErr,
                 !.read = <<>>,
                 !.last = NoToken, !.unread = NoToken]

\* getDocument returns an error (lines 125, 142, 151)
fetchFailed(s, h, why) ==
    /\ pc' = "error"
    /\ doc' = NoDoc
    /\ scraper' = s
    /\ scan' = NoScan
    /\ hist' = [h EXCEPT !.err = why]

\* decoded that hands the Document of the last scan on, with its Link set anew
decodedKeeping(s, ans, h) ==
    IF ans.kind = "charset" THEN fetchFailed(s, h, "charset")
    ELSE /\ pc' = "parseDocument"
         /\ doc' = IF doc.nil THEN NewDoc(URLString(s.Url))
                   ELSE [doc EXCEPT !.Preview.Link = URLString(s.Url)]
         /\ scraper' = s
         /\ scan' = NoScan
         /\ hist' = h

\* getDocument from convertUTF8 on (lines 149-155)
decoded(s, ans, h) ==
    IF ans.kind = "charset" THEN fetchFailed(s, h, "charset")
    ELSE /\ pc' = "parseDocument"
         /\ doc' = NewDoc(URLString(s.Url))
         /\ scraper' = s
         /\ scan' = NoScan
         /\ hist' = h

\* getDocument from http.NewRequest on (lines 123-155), req the parse of url
requested(s, url, req, ans, h) ==
    IF ~req.ok THEN fetchFailed(s, h, "request")
    ELSE IF ~canSend(req.url) \/ ans.kind = "transport"
    THEN fetchFailed(s, h, "transport")
    ELSE \E s4 \in {followed(s, url, servedFrom(req, ans))} : decoded(s4, ans, h)

\* getDocument from line 123 on, s the prepared scraper
fetch(s, url, ans, tfErr) ==
    \E req \in {URLParse(url)} : \E h \in {fetched(url, tfErr)} :
        requested(s, url, req, ans, h)

\* func (scraper *Scraper) getDocument (lines 114-156)
GetDocument(finals) ==
    /\ pc = "getDocument"
    /\ \E s \in {prepared(scraper)} : \E url \in {getUrl(s)} :
        \E tfErr \in {hasHashbang(scraper) /\ toFragmentUrl(charge(scraper)).err} :
            \E ans \in Answers(finals) : fetch(s, url, ans, tfErr)

\* the Icon every scan starts from (line 182)
defaultIcon(s) == Sprintf3(s.Target.Scheme, s.Target.Host, s_favicon)

\* func (scraper *Scraper) parseDocument, up to the loop (lines 171-182)
ParseDocumentBegin ==
    /\ pc = "parseDocument"
    /\ pc' = "loop"
    /\ doc' = [doc EXCEPT !.Preview.Images = <<>>,
                          !.Preview.Name = scraper.Url.Host,
                          !.Preview.Icon = defaultIcon(scraper)]
    /\ scan' = [NoScan EXCEPT !.link = doc.Preview.Link]
    /\ UNCHANGED <<scraper, hist>>

\* what t.Next() can give: a scan reads at most max tokens, then the body ends
NextTokens(alphabet, max) ==
    IF scan.eof \/ scan.n >= max THEN {ErrorToken} ELSE alphabet \cup {ErrorToken}

\* what the t.Next() of case "title" can give: the tokenizer reads the content of a
\* title element as text, so a text token, the end tag when the element is empty,
\* or the end of the body
LookAheads(tok, max) ==
    IF tok.Data = s_title /\ tok.Type = "StartTag"
    THEN IF scan.n + 1 >= max THEN {ErrorToken}
         ELSE {t_titleText, t_titleEnd, ErrorToken}
    ELSE {NoToken}

\* the token that follows the last one read when the scan stops early: any, or
\* the end of the body
Unread(alphabet, exit) ==
    IF exit = "early" THEN alphabet \cup {ErrorToken} ELSE {NoToken}

\* the tokens t.Next() gave in one iteration
tokensRead(tok, la) ==
    (IF tok.Type = "Error" THEN <<>> ELSE <<tok>>)
        \o (IF la.Type \in {"None", "Error"} THEN <<>> ELSE <<la>>)

\* the state after one iteration with outcome r
iterated(r, tok, la, rest) ==
    /\ pc' = pcAfter(r.exit)
    /\ scraper' = r.s
    /\ scan' = [r.sc EXCEPT !.n = @ + Len(tokensRead(tok, la)),
                            !.eof = tok.Type = "Error" \/ la.Type = "Error"]
    /\ doc' = IF r.exit = "error" THEN NoDoc ELSE [doc EXCEPT !.Preview = r.p]
    /\ hist' = [hist EXCEPT
           !.read = @ \o tokensRead(tok, la),
           !.last = tok,
           !.unread = rest,
           !.err = IF r.exit = "error" THEN "token" ELSE @,
           !.via = IF r.exit \in {"canonical", "fragment"} THEN r.exit ELSE @,
           !.tfErr = @ \/ r.tfErr]

\* one iteration of the loop of parseDocument (lines 183-343), with the fetch it
\* ends in left to GetDocument
ParseToken(alphabet, max) ==
    /\ pc = "loop"
    /\ \E tok \in NextTokens(alphabet, max) : \E la \in LookAheads(tok, max) :
        \E r \in {iteration(scraper, doc.Preview, scan, tok, la)} :
            \E rest \in Unread(alphabet, r.exit) : iterated(r, tok, la, rest)

(***************************************************************************)
(* Spec: the fetch-scan-redirect loop on documents that raise redirect     *)
(* signals                                                                 *)
(***************************************************************************)
Uris == {u_plain, u_bang, u_badq_bang, u_badq, u_invalid}

Budgets == (0 - 1)..MaxBudget

Finals == {u_moved}

Tokens ==
    {t_headEnd, t_canonical, t_canonicalHrefFirst, t_metaFragment, t_ogImageBad, t_p}

Init == InitWith(Uris, Budgets)

Next ==
    \/ Scrape
    \/ GetDocument(Finals)
    \/ ParseDocumentBegin
    \/ ParseToken(Tokens, MaxTokens)

Spec == Init /\ [][Next]_vars

\* Scrape runs on the caller's thread: a call that can take a step takes it
FairSpec == Spec /\ WF_vars(Next)


(***************************************************************************)
(* LoopSpec: documents that raise a redirect signal on every scan          *)
(***************************************************************************)
LoopUris == {u_plain, u_bang}

LoopTokens == {t_headEnd, t_canonical, t_metaFragment}

LoopInit == InitWith(LoopUris, Budgets)

LoopNext ==
    \/ Scrape
    \/ GetDocument(Finals)
    \/ ParseDocumentBegin
    \/ ParseToken(LoopTokens, MaxTokens)

\* Scrape runs on the caller's thread: a call that can take a step takes it
LoopSpec == LoopInit /\ [][LoopNext]_vars /\ WF_vars(LoopNext)
(***************************************************************************)
(* What a document declares, read from its tokens                          *)
(***************************************************************************)
\* the values the attributes of tok named key carry
attrVals(tok, key) ==
    {tok.Attr[i].Val : i \in {k \in 1..Len(tok.Attr) : cleanStr(tok.Attr[k].Key) = key}}

\* tok is a link tag with rel=canonical
IsCanonicalLink(tok) ==
    /\ IsTag(tok)
    /\ tok.Data = s_link
    /\ \E v \in attrVals(tok, s_rel) : cleanStr(v) = s_canonical

\* the canonical hrefs the tokens declare that differ from url
DeclaredCanonical(tokens, url) ==
    UNION {attrVals(tokens[i], s_href) \ {<<>>, url} :
             i \in {k \in 1..Len(tokens) : IsCanonicalLink(tokens[k])}}

\* the tokens hold a head-close or a body tag
HeadClosed(tokens) ==
    \E i \in 1..Len(tokens) :
        \/ tokens[i].Data = s_head /\ tokens[i].Type = "EndTag"
        \/ tokens[i].Data = s_body /\ IsTag(tokens[i])

\* tok carries an attribute value that url.Parse rejects
CarriesBadUrl(tok) == \E i \in 1..Len(tok.Attr) : ~URLParse(tok.Attr[i].Val).ok

\* the call has returned
Returned == pc \in {"done", "error"}

\* a redirect signal is pending after head-close and the budget is not positive
Exhausted ==
    /\ pc \in {"loop", "done", "error"}
    /\ scan.hasCanonical \/ scan.hasFragment
    /\ scan.headPassed
    /\ scraper.MaxRedirect <= 0

(***************************************************************************)
(* The redirect budget                                                     *)
(***************************************************************************)
\* C1, as stated: a Scrape call that has returned has made at most maxRedirect
\* fetch attempts
C1_AtMostMaxRedirect == pc = "done" => hist.fetches <= hist.maxRedirect

\* C1, amended: for every maxRedirect and whatever the documents raise, a Scrape
\* call makes at most max(1, maxRedirect) fetch attempts, and it returns
C1_Terminates ==
    /\ [](hist.fetches <= MaxOf({1, hist.maxRedirect}))
    /\ <>Returned

\* C1: a call with maxRedirect 3 returns after three fetches, the last document
\* still raising a signal
C1_Witness ==
    /\ pc = "done"
    /\ hist.maxRedirect = 3
    /\ hist.fetches = 3
    /\ scan.headPassed
    /\ scan.hasCanonical \/ scan.hasFragment

\* C2: with a URL that parses and maxRedirect <= 0, a fetch is attempted exactly
\* once (never a second time, and once by the time the call returns) and no
\* canonical or fragment redirect is taken
C2_OneFetch ==
    (hist.maxRedirect <= 0 /\ URLParse(hist.uri).ok) =>
        /\ hist.fetches <= 1
        /\ hist.via = "start"
        /\ Returned => hist.fetches = 1

\* C2: a call with maxRedirect <= 0 returns the document whose head raised a signal
C2_Witness ==
    /\ pc = "done"
    /\ hist.maxRedirect <= 0
    /\ hist.fetches = 1
    /\ scan.headPassed
    /\ scan.hasCanonical \/ scan.hasFragment

\* C3: once the scraper exists, its budget is maxRedirect minus the fetch attempts
\* started so far, failed ones included
C3_Budget ==
    ~scraper.Url.nil => scraper.MaxRedirect = hist.maxRedirect - hist.fetches

\* C3: the second fetch attempt fails in the transport or the decoding
C3_Witness ==
    /\ pc = "error"
    /\ hist.err \in {"transport", "charset"}
    /\ hist.fetches = 2
    /\ scraper.MaxRedirect = hist.maxRedirect - 2

\* C4, as stated: with maxRedirect 3, once the first document has declared a
\* canonical href that differs from its URL and its head is closed, the scan of
\* that document is over: the second fetch is due
C4_CanonicalRefetch ==
    (/\ hist.maxRedirect = 3
     /\ hist.fetches = 1
     /\ pc \in {"loop", "done"}
     /\ HeadClosed(hist.read))
        => DeclaredCanonical(hist.read, scan.link) = {}

\* C9, as stated: once a toFragmentUrl has returned an error, Scrape has returned
\* an error and no Document
C9_FragmentErrorPropagates == hist.tfErr => (pc = "error" /\ doc.nil)

MaxScan == 5

PreviewUris == {u_plain}

PreviewBudgets == {1}

PreviewFinals == {}

PreviewTokens ==
    {t_title, t_ogTitle, t_description, t_ogImage, t_ogImageRel, t_headEnd, t_img}

PreviewInit == InitWith(PreviewUris, PreviewBudgets)

PreviewNext ==
    \/ Scrape
    \/ GetDocument(PreviewFinals)
    \/ ParseDocumentBegin
    \/ ParseToken(PreviewTokens, MaxScan)

PreviewSpec == PreviewInit /\ [][PreviewNext]_vars

(***************************************************************************)
(* TitleSpec: one document with a title element, an og:title and what the  *)
(* early exit waits for                                                    *)
(***************************************************************************)
\* the most tokens a scan of TitleSpec reads from one body
MaxTitleScan == 6

TitleTokens == {t_title, t_titleEnd, t_ogTitle, t_description, t_ogImage, t_headEnd}

TitleInit == InitWith(PreviewUris, PreviewBudgets)

TitleNext ==
    \/ Scrape
    \/ GetDocument(PreviewFinals)
    \/ ParseDocumentBegin
    \/ ParseToken(TitleTokens, MaxTitleScan)

TitleSpec == TitleInit /\ [][TitleNext]_vars

\* tok is a meta tag whose property (or name) is property
IsMeta(tok, property) ==
    /\ IsTag(tok)
    /\ tok.Data = s_meta
    /\ \E v \in attrVals(tok, s_property) \cup attrVals(tok, s_name) :
          cleanStr(v) = property

\* the contents of the meta tags of tokens whose property is property
metaContents(tokens, property) ==
    UNION {attrVals(tokens[i], s_content) :
             i \in {k \in 1..Len(tokens) : IsMeta(tokens[k], property)}}

\* the tokens hold the start of a title element
HasTitle(tokens) ==
    \E i \in 1..Len(tokens) : tokens[i].Data = s_title /\ tokens[i].Type = "StartTag"

\* what is known of the body of the current document: the tokens read and, when
\* the scan stopped early, the token after them
Body == hist.read \o (IF IsTag(hist.unread) THEN <<hist.unread>> ELSE <<>>)

\* tok is an img tag
IsImg(tok) == IsTag(tok) /\ tok.Data = s_img

\* the entries an og:image meta tag of tokens gives Images on the current URL: its
\* content, or the content after the scheme and host when it is relative
ogEntries(tokens) ==
    UNION {{c, Sprintf3(scraper.Url.Scheme, scraper.Url.Host, c)} :
             c \in metaContents(tokens, s_og_image)}

\* C5, as stated: the Title of the record returned for a document that holds both
\* an og:title meta tag and a title element is the og:title content
C5_OgTitleWins ==
    (pc = "done" /\ HasTitle(Body) /\ metaContents(Body, s_og_title) # {})
        => doc.Preview.Title \in metaContents(Body, s_og_title)

\* C6: the iteration that processes an og:image meta tag without an error leaves
\* exactly one entry in Images, the Open Graph image, whatever Images held
C6_OgImageReplaces ==
    [][(pc = "loop" /\ IsMeta(hist'.last, s_og_image) /\ pc' # "error") =>
          /\ Len(doc'.Preview.Images) = 1
          /\ doc'.Preview.Images[1] \in ogEntries(<<hist'.last>>)]_vars

\* C6: an og:image meta tag has just been processed after two img tags
C6_Witness ==
    /\ pc = "loop"
    /\ Len(hist.read) = 3
    /\ IsImg(hist.read[1])
    /\ IsImg(hist.read[2])
    /\ IsMeta(hist.last, s_og_image)
    /\ Len(doc.Preview.Images) = 1

\* C7, as stated: once a scan has processed an og:image meta tag, Images holds
\* Open Graph image entries only
C7_OgImagesOnly ==
    (pc \in {"loop", "done"} /\ scan.ogImage) =>
        \A i \in 1..Len(doc.Preview.Images) :
            doc.Preview.Images[i] \in ogEntries(hist.read)

(***************************************************************************)
(* IconSpec: documents with icon links, served from the host of the target *)
(* or, after an HTTP or a canonical redirect, from another host            *)
(***************************************************************************)
IconUris == {u_plain}

IconBudgets == {1, 2}

IconFinals == {u_moved}

IconTokens == {t_iconRel, t_iconAbs, t_iconBad, t_canonical, t_headEnd}

IconInit == InitWith(IconUris, IconBudgets)

IconNext ==
    \/ Scrape
    \/ GetDocument(IconFinals)
    \/ ParseDocumentBegin
    \/ ParseToken(IconTokens, MaxTokens)

IconSpec == IconInit /\ [][IconNext]_vars

\* tok is a link tag with rel=icon or rel=shortcut icon
IsIconLink(tok) ==
    /\ IsTag(tok)
    /\ tok.Data = s_link
    /\ \E v \in attrVals(tok, s_rel) : cleanStr(v) \in {s_icon, s_shortcut_icon}

\* the hrefs of tok that begin with '/'
slashHrefs(tok) == {h \in attrVals(tok, s_href) : Len(h) > 0 /\ h[1] = 47}

\* {scheme}://{host}/favicon.ico of the URL Scrape was called with
targetIcon ==
    Sprintf3(URLParse(hist.uri).url.Scheme, URLParse(hist.uri).url.Host, s_favicon)

\* the current document is served from the host of the original target
SameHost == scraper.Url.Host = URLParse(hist.uri).url.Host

\* a scan is running or has returned its record
Scanning == pc \in {"loop", "done"}

\* the Icon of a scan is the default until an icon link is read, and for good on
\* another host
IconDefault ==
    (Scanning /\ (~SameHost \/ \A i \in 1..Len(hist.read) : ~IsIconLink(hist.read[i])))
        => doc.Preview.Icon = targetIcon

\* C8, as stated: on the host of the target, the iteration that processes an icon
\* link whose href begins with '/' leaves Icon at {scheme}://{host}{href} of the
\* current URL
C8_SlashHrefResolves ==
    [][(pc = "loop" /\ SameHost /\ IsIconLink(hist'.last) /\ pc' # "error") =>
          \A h \in slashHrefs(hist'.last) :
              doc'.Preview.Icon = Sprintf3(scraper.Url.Scheme, scraper.Url.Host, h)]_vars

\* C8, amended: Icon is {scheme}://{host}/favicon.ico of the original target until
\* an icon link is read, and throughout every scan of a document from another
\* host; on the host of the target an href beginning with '/' resolves to
\* {scheme}://{host}{href} of the current URL when that URL passes
\* url.ParseRequestURI, and leaves Icon as it was when it does not
C8_Icon ==
    /\ []IconDefault
    /\ [][(pc = "loop" /\ SameHost /\ IsIconLink(hist'.last) /\ pc' # "error") =>
            \A h \in slashHrefs(hist'.last) :
                doc'.Preview.Icon =
                    IF URLParseRequestURI(Sprintf3(scraper.Url.Scheme, scraper.Url.Host, h)).ok
                    THEN Sprintf3(scraper.Url.Scheme, scraper.Url.Host, h)
                    ELSE doc.Preview.Icon]_vars

\* C8: after a canonical redirect to another host an icon link has been read and
\* the scan has returned
C8_Witness ==
    /\ pc = "done"
    /\ hist.via = "canonical"
    /\ ~SameHost
    /\ \E i \in 1..Len(hist.read) : IsIconLink(hist.read[i])
    /\ doc.Preview.Icon = targetIcon

(***************************************************************************)
(* FragmentSpec: URLs that carry "#!" or the escaped-fragment marker, and  *)
(* documents that ask for the escaped-fragment form                        *)
(***************************************************************************)
\* "http://a/p?_escaped_fragment_=x"
u_escaped ==
    <<104, 116, 116, 112, 58, 47, 47, 97, 47, 112, 63, 95, 101, 115, 99, 97, 112, 101,
      100, 95, 102, 114, 97, 103, 109, 101, 110, 116, 95, 61, 120>>

\* "http://b/r?_escaped_fragment_=x"
u_movedEscaped ==
    <<104, 116, 116, 112, 58, 47, 47, 98, 47, 114, 63, 95, 101, 115, 99, 97, 112, 101,
      100, 95, 102, 114, 97, 103, 109, 101, 110, 116, 95, 61, 120>>

FragmentUris == {u_plain, u_bang, u_escaped}

FragmentBudgets == 1..MaxBudget

FragmentFinals == {u_movedEscaped}

FragmentTokens == {t_metaFragment, t_headEnd, t_p}

FragmentInit == InitWith(FragmentUris, FragmentBudgets)

FragmentNext ==
    \/ Scrape
    \/ GetDocument(FragmentFinals)
    \/ ParseDocumentBegin
    \/ ParseToken(FragmentTokens, MaxTokens)

FragmentSpec == FragmentInit /\ [][FragmentNext]_vars

\* how many times sub occurs in s
Occurrences(s, sub) ==
    Cardinality({i \in 1..(Len(s) - Len(sub) + 1) : HasPrefixAt(s, sub, i)})

\* the current URL is an escaped-fragment URL: it carries the marker once
UrlIsEscaped ==
    /\ ~scraper.Url.nil
    /\ Occurrences(URLString(scraper.Url), EscapedFragment) = 1

\* C11, as stated: whenever the current URL is an escaped-fragment URL, the
\* escaped-fragment URL the resolver has left for it carries the marker exactly
\* once: it is that same URL
C11_OneMarker ==
    (UrlIsEscaped /\ ~scraper.EscapedFragmentUrl.nil) =>
        /\ Occurrences(URLString(scraper.EscapedFragmentUrl), EscapedFragment) = 1
        /\ URLString(scraper.EscapedFragmentUrl) = URLString(scraper.Url)

(***************************************************************************)
(* EncodeSpec: the loop of toFragmentUrl over a payload (lines 78-89),     *)
(* applied to byte strings built one byte at a time; hist holds the        *)
(* payload (matches[1]) and what the loop appends to EscapedFragment       *)
(***************************************************************************)
\* the longest payload
MaxPayload == 3

\* the bytes a payload is built from: 'x', space, '&', tab, DEL, and bytes over
\* 127: 0xC3 0xA9 is U+00E9, 0xC4 0x80 is U+0100, any alone is not UTF-8
PayloadBytes == {120, 32, 38, 9, 127, 195, 169, 196, 128}

EncodeInit ==
    /\ pc = "payload"
    /\ scraper = NoScraper
    /\ doc = NoDoc
    /\ scan = NoScan
    /\ hist = [payload |-> <<>>, encoded |-> <<>>]

\* the caller's URL carries one more byte after "#!"
PayloadByte ==
    /\ pc = "payload"
    /\ Len(hist.payload) < MaxPayload
    /\ \E b \in PayloadBytes : hist' = [hist EXCEPT !.payload = Append(@, b)]
    /\ UNCHANGED <<pc, scraper, doc, scan>>

\* `for _, r := range matches[1]` (lines 79-89)
EncodePayload ==
    /\ pc = "payload"
    /\ pc' = "encoded"
    /\ hist' = [hist EXCEPT !.encoded = encodeFragment(hist.payload)]
    /\ UNCHANGED <<scraper, doc, scan>>

EncodeNext ==
    \/ PayloadByte
    \/ EncodePayload

EncodeSpec == EncodeInit /\ [][EncodeNext]_vars

\* %XX of byte b
percentOf(b) == <<37, UpperHexDigit(b \div 16), UpperHexDigit(b % 16)>>

\* what the byte-escaping law gives for byte b
lawOf(b) ==
    IF b \in 0..31 \cup {127} THEN <<>>
    ELSE IF b \in {32, 35, 37, 38, 43} \cup 128..255 THEN percentOf(b)
    ELSE <<b>>

\* C12, as stated: the encoded payload is the payload with every byte 0..31 or
\* 127 dropped, every byte that is space, '#', '%', '&', '+' or 128..255 replaced
\* by its %XX, and every other byte copied, in order
C12_ByteLaw ==
    pc = "encoded" =>
        hist.encoded = Flatten([i \in 1..Len(hist.payload) |-> lawOf(hist.payload[i])])

(***************************************************************************)
(* The early exit against a scan to the end of the stream                  *)
(***************************************************************************)
\* the scan has returned at line 340 with a tag left unread
ExitedEarly == pc = "done" /\ IsTag(hist.unread)

\* what the iteration of the loop gives for the unread token when the body ends
\* after it: the next iteration of a scan that only stops at the end of the stream
fullScanNext == iteration(scraper, doc.Preview, scan, hist.unread, ErrorToken)

\* C13, as stated: when the scan returns early, the token it leaves unread would
\* neither change the record nor raise a redirect or an error: a scan to the end
\* of the stream returns the same record
C13_EarlyExitSame ==
    ExitedEarly =>
        /\ fullScanNext.exit \in {"next", "early"}
        /\ fullScanNext.p = doc.Preview

(***************************************************************************)
(* The body buffer                                                         *)
(***************************************************************************)
\* what doc.Body still holds of the body: html.NewTokenizer(&doc.Body) (line 172)
\* reads from the buffer itself, and a bytes.Buffer gives each byte once, so the
\* scan.n tokens t.Next() has returned are no longer in it (the tokenizer reads
\* ahead in blocks: the buffer may hold less, never more)
bodyLeft == SubSeq(Body, scan.n + 1, Len(Body))

\* C14, as stated: the Document Scrape returns holds the complete body of the
\* last fetched document
C14_BodyKept == pc = "done" => bodyLeft = Body

(***************************************************************************)
(* Which redirect is taken, and when                                       *)
(***************************************************************************)
\* the scan has just given way to a redirect: the fetch is about to start
Redirecting == pc = "getDocument" /\ hist.fetches > 0

\* C15: when a scan gives way to a redirect with both a canonical URL and a
\* fragment signal pending, it is the canonical redirect: the escaped-fragment
\* override is cleared and the fetch that follows requests the canonical href
C15_CanonicalFirst ==
    [][(Redirecting /\ scan.hasCanonical /\ scan.hasFragment) =>
          /\ hist.via = "canonical"
          /\ scraper.EscapedFragmentUrl.nil
          /\ hist'.req \in DeclaredCanonical(hist.read, scan.link)]_vars

\* C15: a scan has given way to the canonical redirect with both signals pending
C15_Witness ==
    /\ Redirecting
    /\ scan.hasCanonical
    /\ scan.hasFragment
    /\ scan.headPassed
    /\ hist.via = "canonical"
    /\ URLString(scraper.Url) = h_other

\* a canonical URL or a fragment signal is pending
Pending == scan.hasCanonical \/ scan.hasFragment

\* a redirect is taken only right after a tag, with the head passed, a signal
\* pending and a positive budget
RedirectDue ==
    Redirecting =>
        /\ IsTag(hist.last)
        /\ scan.headPassed
        /\ Pending
        /\ scraper.MaxRedirect > 0

\* the scan never goes on with the head passed, a signal pending and a positive
\* budget: the redirect is taken by the iteration that completes the three
NeverLater == (pc = "loop" /\ scan.headPassed /\ Pending) => scraper.MaxRedirect <= 0

\* C16: a scan gives way to a re-fetch only right after a tag, with headPassed
\* true, a signal pending and a positive budget; a signal pending inside the head
\* is acted upon by the iteration that sets headPassed, never earlier and never
\* later; and the step after the redirect is the fetch: the abandoned document is
\* not scanned further
C16_RefetchWhenDue ==
    /\ []RedirectDue
    /\ []NeverLater
    /\ [][(pc = "loop" /\ ~scan.headPassed /\ Pending /\ scraper.MaxRedirect > 0
              /\ scan'.headPassed) => pc' = "getDocument"]_vars
    /\ [][Redirecting => (hist'.fetches = hist.fetches + 1 /\ hist'.read = <<>>)]_vars

\* C16: a canonical link inside the head has led to a redirect at the head-close tag
C16_Witness ==
    /\ Redirecting
    /\ hist.read = <<t_canonical, t_headEnd>>
    /\ hist.last = t_headEnd
    /\ scraper.MaxRedirect > 0

(***************************************************************************)
(* LinkSpec: documents with canonical links, absolute, relative, with the  *)
(* attributes in either order, and with an og:url before them              *)
(***************************************************************************)
\* <link rel="canonical" href="http://a/u">: the href is the content of t_ogUrl
t_canonicalU == StartTag(s_link, <<Attr(s_rel, s_canonical), Attr(s_href, v_u)>>)

LinkUris == {u_plain}

LinkBudgets == 1..2

LinkFinals == {}

LinkTokens ==
    {t_canonical, t_canonicalHrefFirst, t_canonicalRel, t_canonicalU, t_ogUrl, t_headEnd}

LinkInit == InitWith(LinkUris, LinkBudgets)

LinkNext ==
    \/ Scrape
    \/ GetDocument(LinkFinals)
    \/ ParseDocumentBegin
    \/ ParseToken(LinkTokens, MaxTokens)

LinkSpec == LinkInit /\ [][LinkNext]_vars

\* the non-empty hrefs of tok
hrefs(tok) == attrVals(tok, s_href) \ {<<>>}

\* C17, as stated: the iteration that processes a link tag with rel=canonical and
\* a non-empty href, no canonical URL pending yet, records one if and only if the
\* href differs from the Link the record has at that moment
C17_CanonicalRecorded ==
    [][(pc = "loop" /\ ~scan.hasCanonical /\ IsCanonicalLink(hist'.last)
          /\ pc' # "error") =>
            \A h \in hrefs(hist'.last) :
                scan'.hasCanonical <=> h # doc.Preview.Link]_vars

\* C20, as stated: the fetch that follows a canonical redirect never requests the
\* URL of the document that declared the canonical link
C20_CanonicalMoves ==
    [][(Redirecting /\ hist.via = "canonical") => hist'.req # scan.link]_vars

(***************************************************************************)
(* Where Title comes from                                                  *)
(***************************************************************************)
\* the texts that directly follow a title open tag in tokens
titleTexts(tokens) ==
    {tokens[i + 1].Data :
        i \in {k \in 1..(Len(tokens) - 1) :
                 /\ tokens[k].Data = s_title
                 /\ tokens[k].Type = "StartTag"
                 /\ tokens[k + 1].Type = "Text"}}

\* C18, as stated: Title is empty, an og:title content, or the text that follows
\* a title open tag
C18_TitleFromText ==
    pc \in {"loop", "done"} =>
        doc.Preview.Title \in
            {<<>>} \cup metaContents(hist.read, s_og_title) \cup titleTexts(hist.read)

(***************************************************************************)
(* RestartSpec: documents that fill every field of the record and raise    *)
(* redirect signals                                                        *)
(***************************************************************************)
RestartUris == {u_plain}

RestartBudgets == {2}

RestartFinals == {}

RestartTokens ==
    {t_ogTitle, t_description, t_img, t_siteName, t_ogUrl, t_iconRel, t_canonical,
     t_metaFragment, t_headEnd}

RestartInit == InitWith(RestartUris, RestartBudgets)

RestartNext ==
    \/ Scrape
    \/ GetDocument(RestartFinals)
    \/ ParseDocumentBegin
    \/ ParseToken(RestartTokens, MaxTokens)

RestartSpec == RestartInit /\ [][RestartNext]_vars

\* the record of a document of the current URL before any of its tags is read:
\* empty but for the defaults
freshPreview ==
    [NewPreview(URLString(scraper.Url)) EXCEPT
        !.Name = scraper.Url.Host, !.Icon = defaultIcon(scraper)]

\* the locals of a scan of a document of the current URL before any tag is read
freshScan == [NoScan EXCEPT !.link = URLString(scraper.Url)]

\* toks[i] is a title open tag that had a token to look ahead to
lookedAhead(toks, i) ==
    toks[i].Data = s_title /\ toks[i].Type = "StartTag" /\ i < Len(toks)

RECURSIVE scanFrom(_, _, _, _)
\* the record the tags toks[i..] give, read one after the other from record p and
\* locals sc
scanFrom(p, sc, toks, i) ==
    IF i > Len(toks) THEN p
    ELSE IF ~IsTag(toks[i]) THEN scanFrom(p, sc, toks, i + 1)
    ELSE With(tagSwitch(scraper, p, sc, toks[i],
                        IF lookedAhead(toks, i) THEN toks[i + 1] ELSE ErrorToken),
              LAMBDA r : scanFrom(r.p, r.sc, toks,
                                  IF lookedAhead(toks, i) THEN i + 2 ELSE i + 1))

\* C19: after a canonical or fragment redirect the record is what the tags read
\* from the current document give from a fresh accumulator: nothing of an earlier
\* document of the chain is in it
C19_FreshAccumulator ==
    (pc \in {"loop", "done"} /\ hist.via \in {"canonical", "fragment"}) =>
        doc.Preview = scanFrom(freshPreview, freshScan, hist.read, 1)

\* C19: after a canonical redirect a document with a description only has been
\* scanned to its end: the record returned holds it and the defaults
C19_Witness ==
    /\ pc = "done"
    /\ hist.via = "canonical"
    /\ hist.fetches = 2
    /\ hist.read = <<t_description>>
    /\ doc.Preview = [freshPreview EXCEPT !.Description = v_D]
====
